---- MODULE Spec2Model ----
(***************************************************************************)
(* Model of the aws-sqs-send-message action: run() of src/index.ts drives  *)
(* sendMessage() of sqs.ts (validation, request building, one submission)  *)
(* and reports the result.                                                 *)
(*                                                                         *)
(* Text is a sequence of one-character strings, so that the pattern match  *)
(* of validateQueueUrl, parseInt and the base64 decoding are computed on   *)
(* the characters.  An optional value is <<>> (absent) or <<v>> (present). *)
(***************************************************************************)
EXTENDS Integers, Sequences, FiniteSets, TLC

\* ------------------------------------------------------------------ bounds
\* Longest delay-seconds text enumerated over DelayAlphabet.
MaxDelayLen == 3
\* Longest region / account-id / queue-name part enumerated for queue URLs.
MaxPartLen == 2
\* Largest number of top-level keys of an enumerated attribute document.
MaxKeys == 11

\* ------------------------------------------------------------------ text
None == <<>>
Some(v) == <<v>>

Digits == <<"0", "1", "2", "3", "4", "5", "6", "7", "8", "9">>
LowerCase == {"a", "b", "c", "d", "e", "f", "g", "h", "i", "j", "k", "l", "m",
              "n", "o", "p", "q", "r", "s", "t", "u", "v", "w", "x", "y", "z"}
LineTerminators == {"\n", "\r"}

IsDigit(c) == \E i \in 1..10 : Digits[i] = c
DigitValue(c) == (CHOOSE i \in 1..10 : Digits[i] = c) - 1

\* All sequences over alphabet A of length 0..n.
RECURSIVE SeqsUpTo(_, _)
SeqsUpTo(A, n) ==
  IF n = 0 THEN {<<>>}
  ELSE LET shorter == SeqsUpTo(A, n - 1)
       IN  shorter \cup {Append(s, c) : s \in {t \in shorter : Len(t) = n - 1}, c \in A}

StrHttps == <<"h", "t", "t", "p", "s", ":", "/", "/">>
StrHttp == <<"h", "t", "t", "p", ":", "/", "/">>
StrSqsDot == <<"s", "q", "s", ".">>
StrAmazonaws == <<".", "a", "m", "a", "z", "o", "n", "a", "w", "s", ".", "c", "o", "m">>
StrAmazonOrg == <<".", "a", "m", "a", "z", "o", "n", "a", "w", "s", ".", "o", "r", "g">>
StrDotCn == <<".", "c", "n">>
StrSlash == <<"/">>
StrFifo == <<".", "f", "i", "f", "o">>
StrRegion == <<"u", "s", "-", "e", "a", "s", "t", "-", "1">>
StrAccount == <<"1", "2", "3", "4", "5", "6", "7", "8", "9", "0", "1", "2">>
StrQueue == <<"q">>
StrLocalStackUrl ==
  <<"h", "t", "t", "p", ":", "/", "/", "l", "o", "c", "a", "l", "h", "o", "s", "t",
    ":", "4", "5", "6", "6", "/", "0", "0", "0", "0", "0", "0", "0", "0", "0", "0",
    "0", "0", "/", "m", "y", "-", "q", "u", "e", "u", "e">>

\* ------------------------------------------------- validateQueueUrl (regex)
\* The positions a match can stand at after consuming literal lit from a
\* position of P (a position is the index of the next character to read).
MatchLit(s, P, lit) ==
  {p + Len(lit) : p \in {q \in P : /\ q + Len(lit) - 1 <= Len(s)
                                   /\ SubSeq(s, q, q + Len(lit) - 1) = lit}}

\* One or more characters of a class (X+); inClass[i] tells whether the
\* character at position i is of the class.
MatchPlus(s, P, inClass) ==
  {e \in 2..(Len(s) + 1) :
     \E p \in P : p < e /\ \A i \in p..(e - 1) : inClass[i]}

\* (X)? : either skip or take the literal.
MatchOpt(s, P, lit) == P \cup MatchLit(s, P, lit)

RegionChar(c) == c \in LowerCase \/ IsDigit(c) \/ c = "-"
\* "." of a JavaScript regex without the s flag: anything but a line terminator.
DotChar(c) == c \notin LineTerminators

\* /^https:\/\/sqs\.[a-z0-9-]+\.amazonaws\.com(\.cn)?\/\d+\/.+$/
UrlPatternTest(s) ==
  LET p1 == MatchLit(s, {1}, StrHttps \o StrSqsDot)
      p2 == MatchPlus(s, p1, [i \in 1..Len(s) |-> RegionChar(s[i])])
      p3 == MatchLit(s, p2, StrAmazonaws)
      p4 == MatchOpt(s, p3, StrDotCn)
      p5 == MatchLit(s, p4, StrSlash)
      p6 == MatchPlus(s, p5, [i \in 1..Len(s) |-> IsDigit(s[i])])
      p7 == MatchLit(s, p6, StrSlash)
      p8 == MatchPlus(s, p7, [i \in 1..Len(s) |-> DotChar(s[i])])
  IN  (Len(s) + 1) \in p8

\* queueUrl.endsWith('.fifo')
EndsWith(s, suffix) ==
  /\ Len(s) >= Len(suffix)
  /\ SubSeq(s, Len(s) - Len(suffix) + 1, Len(s)) = suffix
IsFifo(queueUrl) == EndsWith(queueUrl, StrFifo)

\* ------------------------------------------------------- message body size
\* A body is described by how many code points of each UTF-8 width it holds
\* (w4 code points are surrogate pairs: two UTF-16 units each).
Body(w1, w2, w3, w4) == [w1 |-> w1, w2 |-> w2, w3 |-> w3, w4 |-> w4]
\* messageBody.length
StringLength(b) == b.w1 + b.w2 + b.w3 + 2 * b.w4
\* Buffer.byteLength(messageBody, 'utf8')
ByteLength(b) == b.w1 + 2 * b.w2 + 3 * b.w3 + 4 * b.w4
MaxSizeBytes == 256 * 1024
BodyTooLargeByChars(b) == StringLength(b) > MaxSizeBytes
BodyTooLarge(b) == ByteLength(b) > MaxSizeBytes

\* ----------------------------------------------------------- delay seconds
MinDelay == 0
MaxDelay == 900
DelayOutOfRange(d) == d < MinDelay \/ d > MaxDelay

\* parseInt(text, 10): leading white space is skipped, then an optional sign,
\* then the longest run of decimal digits; NaN (None here) without a digit.
WhiteSpace == {" ", "\t", "\n", "\r"}
RECURSIVE SkipWhiteSpace(_)
SkipWhiteSpace(s) ==
  IF s # <<>> /\ Head(s) \in WhiteSpace THEN SkipWhiteSpace(Tail(s)) ELSE s
RECURSIVE DigitPrefix(_)
DigitPrefix(s) ==
  IF s # <<>> /\ IsDigit(Head(s)) THEN <<Head(s)>> \o DigitPrefix(Tail(s)) ELSE <<>>
RECURSIVE DecimalValue(_)
DecimalValue(ds) ==
  IF ds = <<>> THEN 0
  ELSE 10 * DecimalValue(SubSeq(ds, 1, Len(ds) - 1)) + DigitValue(ds[Len(ds)])
ParseInt(text) ==
  LET t == SkipWhiteSpace(text)
      neg == t # <<>> /\ Head(t) = "-"
      body == IF t # <<>> /\ Head(t) \in {"-", "+"} THEN Tail(t) ELSE t
      ds == DigitPrefix(body)
  IN  IF ds = <<>> THEN None
      ELSE Some(IF neg THEN 0 - DecimalValue(ds) ELSE DecimalValue(ds))

\* -------------------------------------------------------------- JSON values
\* The value JSON.parse yields for an attribute text, or "bad" for a text it
\* rejects with a SyntaxError.  Every value has the same shape: kind k, boolean
\* b, number n, text s and members m (the <<key, value>> pairs of an object,
\* or of an array under its index keys), so that values of any kind compare.
JVal(k, b, n, s, m) == [k |-> k, b |-> b, n |-> n, s |-> s, m |-> m]
JBad == JVal("bad", FALSE, 0, <<>>, <<>>)
JNull == JVal("null", FALSE, 0, <<>>, <<>>)
JBool(b) == JVal("bool", b, 0, <<>>, <<>>)
JNum(n) == JVal("num", FALSE, n, <<>>, <<>>)
JStr(s) == JVal("str", FALSE, 0, s, <<>>)
JObj(m) == JVal("obj", FALSE, 0, <<>>, m)

RECURSIVE DecimalText(_)
DecimalText(n) ==
  IF n < 0 THEN <<"-">> \o DecimalText(0 - n)
  ELSE IF n < 10 THEN <<Digits[n + 1]>>
  ELSE DecimalText(n \div 10) \o <<Digits[(n % 10) + 1]>>

JArr(items) ==
  JVal("arr", FALSE, 0, <<>>, [i \in 1..Len(items) |-> <<DecimalText(i - 1), items[i]>>])

StrString == <<"S", "t", "r", "i", "n", "g">>
StrNumber == <<"N", "u", "m", "b", "e", "r">>
StrBinary == <<"B", "i", "n", "a", "r", "y">>
StrDataType == <<"D", "a", "t", "a", "T", "y", "p", "e">>
StrStringValue == <<"S", "t", "r", "i", "n", "g", "V", "a", "l", "u", "e">>
StrBinaryValue == <<"B", "i", "n", "a", "r", "y", "V", "a", "l", "u", "e">>
StrTrue == <<"t", "r", "u", "e">>
StrFalse == <<"f", "a", "l", "s", "e">>
StrNull == <<"n", "u", "l", "l">>
StrObjectObject ==
  <<"[", "o", "b", "j", "e", "c", "t", " ", "O", "b", "j", "e", "c", "t", "]">>

\* Object.entries(v) of a parsed value that is not null: the members of an
\* object or array, the characters of a string, nothing for a number or boolean.
ObjectEntries(v) ==
  CASE v.k \in {"obj", "arr"} -> v.m
    [] v.k = "str" -> [i \in 1..Len(v.s) |-> <<DecimalText(i - 1), JStr(<<v.s[i]>>)>>]
    [] OTHER -> <<>>

\* v.name of a value that is not null: the member of an object, else undefined.
GetProp(v, name) ==
  IF v.k = "obj" /\ \E i \in 1..Len(v.m) : v.m[i][1] = name
  THEN Some(v.m[CHOOSE i \in 1..Len(v.m) : v.m[i][1] = name][2])
  ELSE None

\* !x is false: the value is present and truthy.
Truthy(o) ==
  /\ o # None
  /\ CASE o[1].k = "null" -> FALSE
       [] o[1].k = "bool" -> o[1].b
       [] o[1].k = "num" -> o[1].n # 0
       [] o[1].k = "str" -> o[1].s # <<>>
       [] OTHER -> TRUE

\* String(v)
RECURSIVE JsString(_)
RECURSIVE JoinItems(_)
JoinItems(m) ==
  IF m = <<>> THEN <<>>
  ELSE LET first == IF m[1][2].k = "null" THEN <<>> ELSE JsString(m[1][2])
       IN  IF Len(m) = 1 THEN first ELSE first \o <<",">> \o JoinItems(Tail(m))
JsString(v) ==
  CASE v.k = "str" -> v.s
    [] v.k = "num" -> DecimalText(v.n)
    [] v.k = "bool" -> IF v.b THEN StrTrue ELSE StrFalse
    [] v.k = "null" -> StrNull
    [] v.k = "arr" -> JoinItems(v.m)
    [] OTHER -> StrObjectObject

\* ------------------------------------------------------------------ base64
Base64Alphabet ==
  <<"A", "B", "C", "D", "E", "F", "G", "H", "I", "J", "K", "L", "M", "N", "O", "P",
    "Q", "R", "S", "T", "U", "V", "W", "X", "Y", "Z", "a", "b", "c", "d", "e", "f",
    "g", "h", "i", "j", "k", "l", "m", "n", "o", "p", "q", "r", "s", "t", "u", "v",
    "w", "x", "y", "z", "0", "1", "2", "3", "4", "5", "6", "7", "8", "9", "+", "/">>
InBase64Alphabet(c) == \E i \in 1..64 : Base64Alphabet[i] = c
\* The six-bit value of a character, -1 for a character that has none; the
\* decoder of Buffer also reads the URL-safe "-" and "_".
Unbase64(c) ==
  CASE InBase64Alphabet(c) -> (CHOOSE i \in 1..64 : Base64Alphabet[i] = c) - 1
    [] c = "-" -> 62
    [] c = "_" -> 63
    [] OTHER -> 0 - 1

\* The six-bit values Buffer's decoder reads: it stops at the first "=" and
\* skips every character that has no value.
RECURSIVE Sextets(_)
Sextets(s) ==
  IF s = <<>> \/ Head(s) = "=" THEN <<>>
  ELSE IF Unbase64(Head(s)) < 0 THEN Sextets(Tail(s))
  ELSE <<Unbase64(Head(s))>> \o Sextets(Tail(s))

RECURSIVE SextetsToBytes(_)
SextetsToBytes(x) ==
  LET b1 == x[1] * 4 + (x[2] \div 16)
      b2 == (x[2] % 16) * 16 + (x[3] \div 4)
      b3 == (x[3] % 4) * 64 + x[4]
  IN  CASE Len(x) < 2 -> <<>>
        [] Len(x) = 2 -> <<b1>>
        [] Len(x) = 3 -> <<b1, b2>>
        [] OTHER -> <<b1, b2, b3>> \o SextetsToBytes(SubSeq(x, 5, Len(x)))

\* Buffer.from(v, 'base64'): a string is decoded (never rejected), an array
\* gives its numbers as bytes, and a number, boolean, null or plain object
\* is a TypeError (None here).
BufferFromBase64(v) ==
  CASE v.k = "str" -> Some(SextetsToBytes(Sextets(v.s)))
    [] v.k = "arr" -> Some([i \in 1..Len(v.m) |-> v.m[i][2].n % 256])
    [] OTHER -> None

\* ------------------------------------------------- parseMessageAttributes
MaxAttributes == 10
ValidDataTypes == {StrString, StrNumber, StrBinary}

Thrown(err) == [ok |-> FALSE, err |-> err, attrs |-> <<>>]
Returned(attrs) == [ok |-> TRUE, err |-> "", attrs |-> attrs]

AttrValue(dataType, stringValue, binaryValue) ==
  [DataType |-> dataType, StringValue |-> stringValue, BinaryValue |-> binaryValue]

\* One pass of the loop body over an entry <<key, value>>.
ParseEntry(value) ==
  IF value.k = "null" THEN Thrown("TypeError")
  ELSE
  LET dataType == GetProp(value, StrDataType)
      stringValue == GetProp(value, StrStringValue)
      binaryValue == GetProp(value, StrBinaryValue)
      bytes == IF binaryValue = None THEN None ELSE BufferFromBase64(binaryValue[1])
  IN  CASE ~Truthy(dataType) -> Thrown("MissingDataType")
        [] ~(dataType[1].k = "str" /\ dataType[1].s \in ValidDataTypes) ->
             Thrown("InvalidDataType")
        [] dataType[1].s \in {StrString, StrNumber} /\ stringValue = None ->
             Thrown("MissingStringValue")
        [] dataType[1].s = StrBinary /\ binaryValue = None ->
             Thrown("MissingBinaryValue")
        [] binaryValue # None /\ bytes = None -> Thrown("TypeError")
        [] OTHER ->
             Returned(<<AttrValue(dataType[1].s,
                                  IF stringValue = None THEN None
                                  ELSE Some(JsString(stringValue[1])),
                                  bytes)>>)

\* The for loop: the first entry that throws ends it.
RECURSIVE ParseEntries(_)
ParseEntries(entries) ==
  IF entries = <<>> THEN Returned(<<>>)
  ELSE LET first == ParseEntry(entries[1][2])
           rest == ParseEntries(Tail(entries))
       IN  IF ~first.ok THEN first
           ELSE IF ~rest.ok THEN rest
           ELSE Returned(<<<<entries[1][1], first.attrs[1]>>>> \o rest.attrs)

parseMessageAttributes(parsed) ==
  CASE parsed.k = "bad" -> Thrown("SyntaxError")
    [] parsed.k = "null" -> Thrown("TypeError")
    [] Len(ObjectEntries(parsed)) > MaxAttributes -> Thrown("TooManyAttributes")
    [] OTHER -> ParseEntries(ObjectEntries(parsed))

parseSystemAttributes(parsed) == parseMessageAttributes(parsed)

\* ---------------------------------------------------------- program state
VARIABLES
  pc,        \* the statement run() or sendMessage() stands at
  caller,    \* "run": the action's entry point; "direct": sendMessage called alone
  inputs,    \* what core.getInput returns for each named input
  config,    \* the MessageConfig handed to sendMessage
  input,     \* the SendMessageCommandInput under construction
  sent,      \* the commands handed to client.send, in order
  response,  \* what the client answered to the command in flight
  thrown,    \* the error travelling to the enclosing catch
  result,    \* the MessageResult sendMessage returned
  outputs,   \* the <<name, value>> pairs given to core.setOutput
  failed,    \* the messages given to core.setFailed
  warnings,  \* the number of core.warning calls
  passed,    \* the checks of sendMessage that ran and did not throw
  errors     \* every error thrown so far: where and which

vars == <<pc, caller, inputs, config, input, sent, response, thrown, result,
          outputs, failed, warnings, passed, errors>>

\* The text of an attribute input that was left empty.
JEmptyText == JVal("empty", FALSE, 0, <<>>, <<>>)

\* x || undefined for a text, and the truth value of an optional text.
OrUndefined(text) == IF text = <<>> THEN None ELSE Some(text)
TruthyText(o) == o # None /\ o[1] # <<>>
TruthyDoc(o) == o # None /\ o[1].k # "empty"

MessageConfig(queueUrl, messageBody, messageAttributes, delaySeconds, messageGroupId, messageDeduplicationId, systemAttributes) ==
  [queueUrl |-> queueUrl, messageBody |-> messageBody,
   messageAttributes |-> messageAttributes, delaySeconds |-> delaySeconds,
   messageGroupId |-> messageGroupId,
   messageDeduplicationId |-> messageDeduplicationId,
   systemAttributes |-> systemAttributes]

NoConfig == MessageConfig(<<>>, Body(0, 0, 0, 0), None, None, None, None, None)

SendMessageCommandInput(queueUrl, messageBody) ==
  [QueueUrl |-> queueUrl, MessageBody |-> messageBody, DelaySeconds |-> None,
   MessageAttributes |-> None, MessageSystemAttributes |-> None,
   MessageGroupId |-> None, MessageDeduplicationId |-> None]

NoInput == SendMessageCommandInput(<<>>, Body(0, 0, 0, 0))

MessageResult(success, messageId, sequenceNumber, md5OfBody, md5OfAttributes, error) ==
  [success |-> success, messageId |-> messageId, sequenceNumber |-> sequenceNumber,
   md5OfBody |-> md5OfBody, md5OfAttributes |-> md5OfAttributes, error |-> error]

NoResult == MessageResult(FALSE, None, None, None, None, None)

\* throw inside sendMessage (caught at its catch) or inside run (caught at run's).
Throw(at, kind, handler) ==
  /\ thrown' = kind
  /\ errors' = Append(errors, [at |-> at, kind |-> kind])
  /\ pc' = handler

\* ------------------------------------------------------ enumerated inputs
Inputs(queueUrl, messageBody, messageAttributes, delaySeconds, messageGroupId, messageDeduplicationId, systemAttributes) ==
  [queueUrl |-> queueUrl, messageBody |-> messageBody,
   messageAttributes |-> messageAttributes, delaySeconds |-> delaySeconds,
   messageGroupId |-> messageGroupId,
   messageDeduplicationId |-> messageDeduplicationId,
   systemAttributes |-> systemAttributes]

UrlOf(scheme, region, domain, account, name) ==
  scheme \o StrSqsDot \o region \o domain \o StrSlash \o account \o StrSlash \o name

StdUrl == UrlOf(StrHttps, StrRegion, StrAmazonaws, StrAccount, StrQueue)
FifoUrl == UrlOf(StrHttps, StrRegion, StrAmazonaws, StrAccount, StrQueue \o StrFifo)
HttpUrl == UrlOf(StrHttp, StrRegion, StrAmazonaws, StrAccount, StrQueue)

RegionAlphabet == {"u", "-", "1", "U", "."}
AccountAlphabet == {"1", "a"}
NameAlphabet == {"q", "/", "."}

UrlSet ==
  {UrlOf(sch, StrRegion, dom, StrAccount, StrQueue) :
     sch \in {StrHttps, StrHttp},
     dom \in {StrAmazonaws, StrAmazonaws \o StrDotCn, StrAmazonOrg}}
  \cup {UrlOf(StrHttps, r, StrAmazonaws, StrAccount, StrQueue) :
          r \in SeqsUpTo(RegionAlphabet, MaxPartLen)}
  \cup {UrlOf(StrHttps, StrRegion, StrAmazonaws, a, StrQueue) :
          a \in SeqsUpTo(AccountAlphabet, MaxPartLen)}
  \cup {UrlOf(StrHttps, StrRegion, StrAmazonaws, StrAccount, n \o suffix) :
          n \in SeqsUpTo(NameAlphabet, MaxPartLen), suffix \in {<<>>, StrFifo}}
  \cup {StrLocalStackUrl, <<>>, <<"x">> \o StdUrl, StrFifo,
        \* no account id, and no queue name
        StrHttps \o StrSqsDot \o StrRegion \o StrAmazonaws \o StrSlash \o StrQueue,
        StrHttps \o StrSqsDot \o StrRegion \o StrAmazonaws \o StrSlash \o StrAccount}

SmallBody == Body(2, 0, 0, 0)
BodySet ==
  {Body(0, 0, 0, 0), SmallBody,
   Body(MaxSizeBytes - 1, 0, 0, 0), Body(MaxSizeBytes, 0, 0, 0),
   Body(MaxSizeBytes + 1, 0, 0, 0),
   Body(0, MaxSizeBytes \div 2, 0, 0), Body(1, MaxSizeBytes \div 2, 0, 0),
   Body(1, 0, MaxSizeBytes \div 3, 0), Body(2, 0, MaxSizeBytes \div 3, 0),
   Body(0, 0, 0, MaxSizeBytes \div 4), Body(1, 0, 0, MaxSizeBytes \div 4)}

DelayAlphabet == {"0", "1", "9", "a", ".", "-"}
DelayTexts ==
  SeqsUpTo(DelayAlphabet, MaxDelayLen)
  \cup {<<"1", "2", "a", "b", "c">>, <<"+", "5">>, <<"9", "0", "0", ".", "9">>}

StrHello64 == <<"a", "G", "V", "s", "b", "G", "8", "=">>
StrNotBase64 == <<"n", "o", "t", "-", "b", "a", "s", "e", "6", "4", "!">>
HelloBytes == <<104, 101, 108, 108, 111>>

\* An entry value {"DataType": dt, "StringValue": sv, "BinaryValue": bv}, each
\* member optional.
Entry(dt, sv, bv) ==
  JObj((IF dt = None THEN <<>> ELSE <<<<StrDataType, dt[1]>>>>)
       \o (IF sv = None THEN <<>> ELSE <<<<StrStringValue, sv[1]>>>>)
       \o (IF bv = None THEN <<>> ELSE <<<<StrBinaryValue, bv[1]>>>>))

ValidEntry == Entry(Some(JStr(StrString)), Some(JStr(<<"v">>)), None)
KeyName(i) == <<"k">> \o DecimalText(i)

\* {"k1": ValidEntry, ..., "kn": ValidEntry}
CountDoc(n) == JObj([i \in 1..n |-> <<KeyName(i), ValidEntry>>])

DataTypeValues ==
  {None, Some(JStr(StrString)), Some(JStr(StrNumber)), Some(JStr(StrBinary)),
   Some(JStr(<<"s", "t", "r", "i", "n", "g">>)), Some(JStr(<<>>)), Some(JNum(1)),
   Some(JNull), Some(JArr(<<JStr(StrString)>>))}
StringValueValues ==
  {None, Some(JStr(<<"v">>)), Some(JNum(12)), Some(JNull), Some(JBool(TRUE)),
   Some(JArr(<<JNum(1), JNull, JStr(<<"x">>)>>))}
BinaryValueValues ==
  {None, Some(JStr(StrHello64)), Some(JStr(StrNotBase64)), Some(JStr(<<>>)),
   Some(JStr(<<"a", "G", "k">>)), Some(JNum(5))}

EntryValues ==
  {Entry(dt, sv, bv) :
     dt \in DataTypeValues, sv \in StringValueValues, bv \in BinaryValueValues}
  \cup {JNull, JNum(1), JBool(TRUE), JStr(StrString), JArr(<<>>)}

\* The attribute documents: objects of 0..MaxKeys valid entries, objects of one
\* or two entries of every enumerated shape, and the texts that are no object.
NonObjectDocs ==
  {JBad, JNull, JBool(TRUE), JBool(FALSE), JNum(0), JNum(5), JStr(<<>>),
   JStr(<<"a", "b">>), JArr(<<>>), JArr(<<JNum(1)>>), JArr(<<ValidEntry>>),
   JArr([i \in 1..MaxKeys |-> ValidEntry])}
ObjectDocs ==
  {CountDoc(n) : n \in 0..MaxKeys}
  \cup {JObj(<<<<KeyName(1), e>>>>) : e \in EntryValues}
  \cup {JObj(<<<<KeyName(1), ValidEntry>>, <<KeyName(2), e>>>>) :
          e \in {JNull, JNum(1), Entry(Some(JStr(StrBinary)), None, None),
                 Entry(Some(JStr(StrBinary)), None, Some(JStr(StrHello64)))}}
AttrDocs == ObjectDocs \cup NonObjectDocs

StrGroup == <<"g", "1">>
StrDedup == <<"d", "1">>

BaseInputs == Inputs(StdUrl, SmallBody, JEmptyText, <<>>, <<>>, <<>>, JEmptyText)

\* What the action is run with (core.getInput trims its values, so none ends
\* in white space): each input varied over its whole enumerated
\* set beside a few values of the inputs it interacts with, and a product of
\* a few values of every input.
InputSet ==
  {[BaseInputs EXCEPT !.queueUrl = u, !.messageGroupId = g] :
     u \in {v \in UrlSet : v = <<>> \/ v[Len(v)] \notin WhiteSpace},
     g \in {<<>>, StrGroup}}
  \cup {[BaseInputs EXCEPT !.messageBody = b] : b \in BodySet}
  \cup {[BaseInputs EXCEPT !.delaySeconds = d] : d \in DelayTexts}
  \cup {[BaseInputs EXCEPT !.messageAttributes = a] : a \in AttrDocs}
  \cup {[BaseInputs EXCEPT !.systemAttributes = a, !.messageAttributes = m] :
          a \in AttrDocs, m \in {JEmptyText, CountDoc(MaxAttributes)}}
  \cup {Inputs(u, b, a, d, g, dd, sa) :
          u \in {StdUrl, FifoUrl, HttpUrl},
          b \in {SmallBody, Body(MaxSizeBytes + 1, 0, 0, 0)},
          a \in {JEmptyText, CountDoc(1), JBad},
          d \in {<<>>, <<"0">>, <<"9">>, <<"9", "0", "1">>, <<"a">>},
          g \in {<<>>, StrGroup},
          dd \in {<<>>, StrDedup},
          sa \in {JEmptyText, CountDoc(1), JNull}}

\* The configs sendMessage is called with directly (its fields are optional).
ConfigSet ==
  {MessageConfig(u, SmallBody, a, d, g, dd, sa) :
     u \in {StdUrl, FifoUrl},
     a \in {None, Some(JEmptyText), Some(CountDoc(1))},
     d \in {None, Some(0 - 1), Some(0), Some(5), Some(MaxDelay), Some(MaxDelay + 1)},
     g \in {None, Some(<<>>), Some(StrGroup)},
     dd \in {None, Some(<<>>), Some(StrDedup)},
     sa \in {None, Some(CountDoc(1))}}

\* What the client may answer: each field of the response present or not.
ResponseSet ==
  {[MessageId |-> id, SequenceNumber |-> sn, MD5OfMessageBody |-> mb,
    MD5OfMessageAttributes |-> ma] :
     id \in {None, Some(""), Some("id-1")}, sn \in {None, Some("7")},
     mb \in {None, Some("md5b")}, ma \in {None, Some("md5a")}}
NoResponse ==
  [MessageId |-> None, SequenceNumber |-> None, MD5OfMessageBody |-> None,
   MD5OfMessageAttributes |-> None]

Init ==
  /\ \E start \in {[caller |-> "run", inputs |-> i, config |-> NoConfig] :
                     i \in InputSet}
              \cup {[caller |-> "direct", inputs |-> BaseInputs, config |-> c] :
                      c \in ConfigSet} :
       /\ caller = start.caller
       /\ inputs = start.inputs
       /\ config = start.config
       /\ pc = IF start.caller = "run" THEN "getInputs" ELSE "validateQueueUrl"
  /\ input = NoInput
  /\ sent = <<>>
  /\ response = [state |-> "none", value |-> NoResponse]
  /\ thrown = ""
  /\ result = NoResult
  /\ outputs = {}
  /\ failed = <<>>
  /\ warnings = 0
  /\ passed = {}
  /\ errors = <<>>

\* ------------------------------------------------------------------- run()
\* index.ts 11-20: a required input that is empty makes core.getInput throw.
GetInputs ==
  /\ pc = "getInputs"
  /\ IF inputs.queueUrl = <<>> \/ StringLength(inputs.messageBody) = 0
     THEN Throw("getInputs", "RequiredInput", "runCatch")
     ELSE /\ pc' = "parseDelay"
          /\ UNCHANGED <<thrown, errors>>
  /\ UNCHANGED <<caller, inputs, config, input, sent, response, result, outputs,
                 failed, warnings, passed>>

\* index.ts 14 and 22-43: the delay text ('0' when empty) goes through parseInt;
\* then the config is built and sendMessage is called.
ParseDelay ==
  /\ pc = "parseDelay"
  /\ LET delaySecondsStr == IF inputs.delaySeconds = <<>> THEN <<"0">>
                            ELSE inputs.delaySeconds
         delaySeconds == ParseInt(delaySecondsStr)
     IN  IF delaySeconds = None
         THEN /\ Throw("parseDelay", "InvalidDelayText", "runCatch")
              /\ UNCHANGED config
         ELSE /\ config' = MessageConfig(inputs.queueUrl, inputs.messageBody,
                             IF inputs.messageAttributes.k = "empty" THEN None
                             ELSE Some(inputs.messageAttributes),
                             delaySeconds,
                             OrUndefined(inputs.messageGroupId),
                             OrUndefined(inputs.messageDeduplicationId),
                             IF inputs.systemAttributes.k = "empty" THEN None
                             ELSE Some(inputs.systemAttributes))
              /\ pc' = "validateQueueUrl"
              /\ UNCHANGED <<thrown, errors>>
  /\ UNCHANGED <<caller, inputs, input, sent, response, result, outputs, failed,
                 warnings, passed>>

\* ----------------------------------------------------------- sendMessage()
\* sqs.ts 188, 141-150
ValidateQueueUrl ==
  /\ pc = "validateQueueUrl"
  /\ IF ~UrlPatternTest(config.queueUrl)
     THEN /\ Throw("validateQueueUrl", "InvalidQueueUrl", "sendCatch")
          /\ UNCHANGED passed
     ELSE /\ passed' = passed \cup {"validateQueueUrl"}
          /\ pc' = "validateMessageBody"
          /\ UNCHANGED <<thrown, errors>>
  /\ UNCHANGED <<caller, inputs, config, input, sent, response, result, outputs,
                 failed, warnings>>

\* sqs.ts 189, 155-164
ValidateMessageBody ==
  /\ pc = "validateMessageBody"
  /\ IF BodyTooLarge(config.messageBody)
     THEN /\ Throw("validateMessageBody", "BodyTooLarge", "sendCatch")
          /\ UNCHANGED passed
     ELSE /\ passed' = passed \cup {"validateMessageBody"}
          /\ pc' = "validateDelaySeconds"
          /\ UNCHANGED <<thrown, errors>>
  /\ UNCHANGED <<caller, inputs, config, input, sent, response, result, outputs,
                 failed, warnings>>

\* sqs.ts 190, 169-177
ValidateDelaySeconds ==
  /\ pc = "validateDelaySeconds"
  /\ IF config.delaySeconds # None /\ DelayOutOfRange(config.delaySeconds[1])
     THEN /\ Throw("validateDelaySeconds", "DelayOutOfRange", "sendCatch")
          /\ UNCHANGED passed
     ELSE /\ passed' = passed \cup {"validateDelaySeconds"}
          /\ pc' = "validateFifoQueue"
          /\ UNCHANGED <<thrown, errors>>
  /\ UNCHANGED <<caller, inputs, config, input, sent, response, result, outputs,
                 failed, warnings>>

\* sqs.ts 191, 121-136
ValidateFifoQueue ==
  /\ pc = "validateFifoQueue"
  /\ LET isFifo == IsFifo(config.queueUrl)
     IN  IF isFifo /\ ~TruthyText(config.messageGroupId)
         THEN /\ Throw("validateFifoQueue", "MissingGroupId", "sendCatch")
              /\ UNCHANGED <<passed, warnings>>
         ELSE /\ warnings' = IF ~isFifo /\ TruthyText(config.messageGroupId)
                             THEN warnings + 1 ELSE warnings
              /\ passed' = passed \cup {"validateFifoQueue"}
              /\ pc' = "buildInput"
              /\ UNCHANGED <<thrown, errors>>
  /\ UNCHANGED <<caller, inputs, config, input, sent, response, result, outputs,
                 failed>>

\* sqs.ts 193-206: the command input with the delay, which is left out when 0.
DelayToSendAlways(delaySeconds) == delaySeconds
DelayToSend(delaySeconds) ==
  IF delaySeconds # None /\ delaySeconds[1] > 0 THEN delaySeconds ELSE None

BuildInput ==
  /\ pc = "buildInput"
  /\ input' = [SendMessageCommandInput(config.queueUrl, config.messageBody)
                 EXCEPT !.DelaySeconds = DelayToSend(config.delaySeconds)]
  /\ pc' = "addMessageAttributes"
  /\ UNCHANGED <<caller, inputs, config, sent, response, thrown, result, outputs,
                 failed, warnings, passed, errors>>

\* sqs.ts 208-211
AddMessageAttributes ==
  /\ pc = "addMessageAttributes"
  /\ LET parsed == IF TruthyDoc(config.messageAttributes)
                   THEN parseMessageAttributes(config.messageAttributes[1])
                   ELSE Returned(<<>>)
     IN  IF ~parsed.ok
         THEN /\ Throw("parseMessageAttributes", parsed.err, "sendCatch")
              /\ UNCHANGED <<input, passed>>
         ELSE /\ input' = IF TruthyDoc(config.messageAttributes)
                          THEN [input EXCEPT !.MessageAttributes = Some(parsed.attrs)]
                          ELSE input
              /\ passed' = passed \cup {"parseMessageAttributes"}
              /\ pc' = "addSystemAttributes"
              /\ UNCHANGED <<thrown, errors>>
  /\ UNCHANGED <<caller, inputs, config, sent, response, result, outputs, failed,
                 warnings>>

\* sqs.ts 213-216
AddSystemAttributes ==
  /\ pc = "addSystemAttributes"
  /\ LET parsed == IF TruthyDoc(config.systemAttributes)
                   THEN parseSystemAttributes(config.systemAttributes[1])
                   ELSE Returned(<<>>)
     IN  IF ~parsed.ok
         THEN /\ Throw("parseSystemAttributes", parsed.err, "sendCatch")
              /\ UNCHANGED <<input, passed>>
         ELSE /\ input' = IF TruthyDoc(config.systemAttributes)
                          THEN [input EXCEPT !.MessageSystemAttributes = Some(parsed.attrs)]
                          ELSE input
              /\ passed' = passed \cup {"parseSystemAttributes"}
              /\ pc' = "addFifoParameters"
              /\ UNCHANGED <<thrown, errors>>
  /\ UNCHANGED <<caller, inputs, config, sent, response, result, outputs, failed,
                 warnings>>

\* sqs.ts 218-227: the group ID and the deduplication ID are forwarded when
\* they are not empty, whatever the kind of queue.
GroupIdToSendFifoOnly(cfg) ==
  IF TruthyText(cfg.messageGroupId) /\ IsFifo(cfg.queueUrl)
  THEN cfg.messageGroupId ELSE None
GroupIdToSend(cfg) ==
  IF TruthyText(cfg.messageGroupId) THEN cfg.messageGroupId ELSE None

AddFifoParameters ==
  /\ pc = "addFifoParameters"
  /\ input' = [input EXCEPT
                 !.MessageGroupId = GroupIdToSend(config),
                 !.MessageDeduplicationId =
                    IF TruthyText(config.messageDeduplicationId)
                    THEN config.messageDeduplicationId ELSE None]
  /\ pc' = "clientSend"
  /\ UNCHANGED <<caller, inputs, config, sent, response, thrown, result, outputs,
                 failed, warnings, passed, errors>>

\* sqs.ts 230-231: the command is handed to the client and awaited.
ClientSend ==
  /\ pc = "clientSend"
  /\ sent' = Append(sent, input)
  /\ response' = [state |-> "pending", value |-> NoResponse]
  /\ pc' = "awaitSend"
  /\ UNCHANGED <<caller, inputs, config, input, thrown, result, outputs, failed,
                 warnings, passed, errors>>

\* The client resolves the promise with a response ...
ClientResolve ==
  /\ pc = "awaitSend"
  /\ response.state = "pending"
  /\ \E r \in ResponseSet : response' = [state |-> "resolved", value |-> r]
  /\ UNCHANGED <<pc, caller, inputs, config, input, sent, thrown, result, outputs,
                 failed, warnings, passed, errors>>

\* ... or rejects it (transport, permission or provider error).
ClientReject ==
  /\ pc = "awaitSend"
  /\ response.state = "pending"
  /\ response' = [state |-> "rejected", value |-> NoResponse]
  /\ UNCHANGED <<pc, caller, inputs, config, input, sent, thrown, result, outputs,
                 failed, warnings, passed, errors>>

\* sqs.ts 231: a rejection is thrown at the await.
AwaitThrow ==
  /\ pc = "awaitSend"
  /\ response.state = "rejected"
  /\ Throw("clientSend", "ClientError", "sendCatch")
  /\ UNCHANGED <<caller, inputs, config, input, sent, response, result, outputs,
                 failed, warnings, passed>>

\* sqs.ts 233-247
SendReturn ==
  /\ pc = "awaitSend"
  /\ response.state = "resolved"
  /\ result' = MessageResult(TRUE, response.value.MessageId,
                             response.value.SequenceNumber,
                             response.value.MD5OfMessageBody,
                             response.value.MD5OfMessageAttributes, None)
  /\ pc' = IF caller = "run" THEN "handleResult" ELSE "done"
  /\ UNCHANGED <<caller, inputs, config, input, sent, response, thrown, outputs,
                 failed, warnings, passed, errors>>

\* sqs.ts 248-255: every error thrown in sendMessage becomes a failure result.
SendCatchRetry ==
  /\ pc = "sendCatch"
  /\ pc' = "clientSend"
  /\ UNCHANGED <<caller, inputs, config, input, sent, response, thrown, result,
                 outputs, failed, warnings, passed, errors>>
SendCatch ==
  /\ pc = "sendCatch"
  /\ result' = MessageResult(FALSE, None, None, None, None, Some(thrown))
  /\ pc' = IF caller = "run" THEN "handleResult" ELSE "done"
  /\ UNCHANGED <<caller, inputs, config, input, sent, response, thrown, outputs,
                 failed, warnings, passed, errors>>

\* index.ts 45-77: a failure result is thrown again; on success every value
\* of the result that is not empty becomes an output.
Output(name, value) ==
  IF value # None /\ value[1] # "" THEN {<<name, value[1]>>} ELSE {}

HandleResult ==
  /\ pc = "handleResult"
  /\ IF ~result.success
     THEN /\ Throw("handleResult", thrown, "runCatch")
          /\ UNCHANGED outputs
     ELSE /\ outputs' = outputs
                \cup Output("message-id", result.messageId)
                \cup Output("sequence-number", result.sequenceNumber)
                \cup Output("md5-of-body", result.md5OfBody)
                \cup Output("md5-of-attributes", result.md5OfAttributes)
          /\ pc' = "done"
          /\ UNCHANGED <<thrown, errors>>
  /\ UNCHANGED <<caller, inputs, config, input, sent, response, result, failed,
                 warnings, passed>>

\* index.ts 79-82
RunCatch ==
  /\ pc = "runCatch"
  /\ failed' = Append(failed, thrown)
  /\ pc' = "done"
  /\ UNCHANGED <<caller, inputs, config, input, sent, response, thrown, result,
                 outputs, warnings, passed, errors>>

Next ==
  \/ GetInputs
  \/ ParseDelay
  \/ ValidateQueueUrl
  \/ ValidateMessageBody
  \/ ValidateDelaySeconds
  \/ ValidateFifoQueue
  \/ BuildInput
  \/ AddMessageAttributes
  \/ AddSystemAttributes
  \/ AddFifoParameters
  \/ ClientSend
  \/ ClientResolve
  \/ ClientReject
  \/ AwaitThrow
  \/ SendReturn
  \/ SendCatch
  \/ HandleResult
  \/ RunCatch

Spec == Init /\ [][Next]_vars

\* ------------------------------------------------------------- properties
AllChecks ==
  {"validateQueueUrl", "validateMessageBody", "validateDelaySeconds",
   "validateFifoQueue", "parseMessageAttributes", "parseSystemAttributes"}

ErrorAt(step) == \E i \in 1..Len(errors) : errors[i].at = step
Acted(step) == step \in passed \/ ErrorAt(step)

\* C1: in one invocation of sendMessage the client is called at most once, only
\* after all six checks have passed; when a check fails nothing is submitted,
\* and a failed submission is not sent again.
C1_SubmitOnceAfterChecks ==
  /\ Len(sent) <= 1
  /\ sent # <<>> => AllChecks \subseteq passed
  /\ (\E step \in AllChecks : ErrorAt(step)) => sent = <<>>
  /\ ErrorAt("clientSend") => Len(sent) = 1

\* A submission that the client rejected, after which the invocation ended.
C1_Witness ==
  /\ pc = "done"
  /\ ErrorAt("clientSend")
  /\ Len(sent) = 1
  /\ AllChecks \subseteq passed

\* The pattern of the specification, stated on the parts of the URL:
\* https://sqs.<region>.amazonaws.com[.cn]/<account-id>/<queue-name>.
SpecUrlShape(u) ==
  LET head == StrHttps \o StrSqsDot
      r0 == Len(head)
      At(lit, from) == /\ from + Len(lit) <= Len(u)
                       /\ SubSeq(u, from + 1, from + Len(lit)) = lit
  IN  /\ At(head, 0)
      /\ \E dom \in {StrAmazonaws, StrAmazonaws \o StrDotCn} :
           \E rl \in 1..(Len(u) - r0) :
             /\ \A i \in (r0 + 1)..(r0 + rl) :
                  u[i] \in LowerCase \/ IsDigit(u[i]) \/ u[i] = "-"
             /\ At(dom \o StrSlash, r0 + rl)
             /\ LET a0 == r0 + rl + Len(dom) + 1
                IN  \E al \in 1..(Len(u) - a0) :
                      /\ \A i \in (a0 + 1)..(a0 + al) : IsDigit(u[i])
                      /\ At(StrSlash, a0 + al)
                      /\ Len(u) > a0 + al + 1
                      /\ \A i \in (a0 + al + 2)..Len(u) : u[i] # "/"

\* C3: validateQueueUrl rejects every URL that is not of the specified shape
\* (so one with a "/" inside the queue name) and accepts every URL that is.
C3_UrlAcceptedIffShape ==
  Acted("validateQueueUrl") =>
    ("validateQueueUrl" \in passed <=> SpecUrlShape(config.queueUrl))

\* C4: run with the LocalStack queue URL of the README, the URL check passes
\* and the message is submitted.
C4_LocalStackUrlSubmitted ==
  (caller = "run" /\ inputs = [BaseInputs EXCEPT !.queueUrl = StrLocalStackUrl]
   /\ pc = "done") => Len(sent) = 1

\* C5: a URL is FIFO exactly when it ends in ".fifo"; FIFO without a group ID
\* fails and submits nothing; FIFO with a group ID proceeds; a standard queue
\* with a group ID gets one warning, proceeds, and the submitted request
\* carries the group ID.
C5_FifoRule ==
  LET url == config.queueUrl
      fifo == /\ Len(url) >= 5
              /\ \A i \in 1..5 : url[Len(url) - 5 + i] = StrFifo[i]
      group == config.messageGroupId # None /\ config.messageGroupId[1] # <<>>
  IN  IF ~Acted("validateFifoQueue") THEN warnings = 0
      ELSE /\ (fifo /\ ~group) => ErrorAt("validateFifoQueue") /\ sent = <<>>
           /\ (fifo /\ group) => "validateFifoQueue" \in passed /\ warnings = 0
           /\ (~fifo /\ group) =>
                /\ "validateFifoQueue" \in passed
                /\ warnings = 1
                /\ \A i \in 1..Len(sent) : sent[i].MessageGroupId = config.messageGroupId
           /\ (~fifo /\ ~group) => "validateFifoQueue" \in passed /\ warnings = 0

\* A request for a standard queue submitted with its group ID, after the warning.
C5_Witness ==
  /\ Len(sent) = 1
  /\ ~EndsWith(config.queueUrl, StrFifo)
  /\ sent[1].MessageGroupId = Some(StrGroup)
  /\ warnings = 1

\* C6: the optional fields of a submitted request mirror the supplied fields of
\* the config: the attribute maps, the group ID and the deduplication ID are
\* present exactly when supplied (the IDs unchanged), and DelaySeconds is left
\* out for an absent or zero delay and is the supplied delay otherwise.
C6_OptionalFieldsMirrorConfig ==
  \A i \in 1..Len(sent) :
    LET r == sent[i]
        supplied(o) == o # None /\ o[1] # <<>>
        suppliedDoc(o) == o # None /\ o[1].k # "empty"
    IN  /\ r.QueueUrl = config.queueUrl
        /\ r.MessageBody = config.messageBody
        /\ r.MessageAttributes # None <=> suppliedDoc(config.messageAttributes)
        /\ r.MessageSystemAttributes # None <=> suppliedDoc(config.systemAttributes)
        /\ r.MessageGroupId =
             IF supplied(config.messageGroupId) THEN config.messageGroupId ELSE None
        /\ r.MessageDeduplicationId =
             IF supplied(config.messageDeduplicationId)
             THEN config.messageDeduplicationId ELSE None
        /\ r.DelaySeconds =
             IF config.delaySeconds = None \/ config.delaySeconds = Some(0)
             THEN None ELSE config.delaySeconds

\* A request submitted for a config with an explicit delay of 0 and a
\* deduplication ID: the delay is left out, the ID is there.
C6_Witness ==
  /\ Len(sent) = 1
  /\ config.delaySeconds = Some(0)
  /\ sent[1].DelaySeconds = None
  /\ sent[1].MessageDeduplicationId = Some(StrDedup)
  /\ sent[1].MessageAttributes # None

\* Standard base64 text: groups of four characters of the alphabet, the last
\* group padded with at most two "=".
ValidBase64(t) ==
  /\ Len(t) % 4 = 0
  /\ \E pad \in 0..2 :
       /\ pad <= Len(t)
       /\ \A i \in 1..(Len(t) - pad) : InBase64Alphabet(t[i])
       /\ \A i \in (Len(t) - pad + 1)..Len(t) : t[i] = "="

\* The member of an entry value, as an optional value.
Member(e, name) ==
  IF e.k = "obj" /\ \E i \in 1..Len(e.m) : e.m[i][1] = name
  THEN <<e.m[CHOOSE i \in 1..Len(e.m) : e.m[i][1] = name][2]>>
  ELSE <<>>

IsTagged(e, tag) == Member(e, StrDataType) = <<JStr(tag)>>

\* An entry tagged Binary whose BinaryValue is text that is not base64.
HasInvalidBase64(doc) ==
  \E i \in 1..Len(doc.m) :
    LET e == doc.m[i][2]
        bv == Member(e, StrBinaryValue)
    IN  /\ IsTagged(e, StrBinary)
        /\ bv # <<>> /\ bv[1].k = "str" /\ ~ValidBase64(bv[1].s)

\* The two attribute inputs: the step that parses each, the document, and the
\* field of the command input the parsed map goes to.
AttributeInputs ==
  {[step |-> "parseMessageAttributes", doc |-> config.messageAttributes,
    field |-> input.MessageAttributes],
   [step |-> "parseSystemAttributes", doc |-> config.systemAttributes,
    field |-> input.MessageSystemAttributes]}

HelloDoc == JObj(<<<<KeyName(1), Entry(Some(JStr(StrBinary)), None, Some(JStr(StrHello64)))>>>>)

\* C7: an entry tagged Binary whose BinaryValue is not valid base64 makes the
\* parsing fail, and "aGVsbG8=" is decoded to the bytes of "hello".
C7_InvalidBase64Rejected ==
  \A a \in AttributeInputs :
    (Acted(a.step) /\ a.doc # None /\ a.doc[1].k = "obj") =>
      /\ HasInvalidBase64(a.doc[1]) => ErrorAt(a.step)
      /\ (a.doc[1] = HelloDoc /\ a.step \in passed) =>
           a.field[1][1][2].BinaryValue = Some(HelloBytes)

\* C8: an attribute text that is not a well-formed JSON object (unparseable,
\* or an array, number, string, boolean or null) is rejected, and so is every
\* entry that is not an object with a DataType of String, Number or Binary.
C8_NonObjectRejected ==
  \A a \in AttributeInputs :
    (Acted(a.step) /\ a.doc # None /\ a.doc[1].k # "empty") =>
      /\ a.doc[1].k # "obj" => ErrorAt(a.step)
      /\ (/\ a.doc[1].k = "obj"
          /\ \E i \in 1..Len(a.doc[1].m) :
               \A tag \in {StrString, StrNumber, StrBinary} :
                 ~IsTagged(a.doc[1].m[i][2], tag)) => ErrorAt(a.step)

\* Integer text: an optional sign and then decimal digits only.
IsIntegerText(t) ==
  LET digits == IF t # <<>> /\ t[1] \in {"-", "+"} THEN SubSeq(t, 2, Len(t)) ELSE t
  IN  digits # <<>> /\ \A i \in 1..Len(digits) : IsDigit(digits[i])

\* C9: the delay-seconds text is accepted only when it is integer text (an
\* empty input means no delay); any other text, "12abc" and "1.5" included,
\* fails the run before anything is submitted.
C9_DelayTextIsInteger ==
  (caller = "run" /\ (ErrorAt("parseDelay") \/ pc \notin {"getInputs", "parseDelay", "runCatch"})
   /\ ~ErrorAt("getInputs")) =>
    /\ ~ErrorAt("parseDelay") <=>
         (inputs.delaySeconds = <<>> \/ IsIntegerText(inputs.delaySeconds))
    /\ ErrorAt("parseDelay") => sent = <<>>

\* C10: every submitted request respects the limits (body of at most 262144
\* UTF-8 bytes, delay within 0..900, at most 10 entries in each attribute map),
\* and the bounds are inclusive: 262144 bytes, delays 0 and 900 and 10 keys
\* pass; 262145 bytes, delays -1 and 901 and 11 keys fail.
C10_ProviderLimits ==
  LET bytes == config.messageBody.w1 + 2 * config.messageBody.w2
               + 3 * config.messageBody.w3 + 4 * config.messageBody.w4
      delay == config.delaySeconds
  IN  /\ \A i \in 1..Len(sent) :
           /\ sent[i].MessageBody = config.messageBody /\ bytes <= 262144
           /\ delay # None => (delay[1] >= 0 /\ delay[1] <= 900)
           /\ sent[i].DelaySeconds # None =>
                (sent[i].DelaySeconds[1] >= 0 /\ sent[i].DelaySeconds[1] <= 900)
           /\ sent[i].MessageAttributes # None => Len(sent[i].MessageAttributes[1]) <= 10
           /\ sent[i].MessageSystemAttributes # None =>
                Len(sent[i].MessageSystemAttributes[1]) <= 10
      /\ Acted("validateMessageBody") =>
           ("validateMessageBody" \in passed <=> bytes <= 262144)
      /\ Acted("validateDelaySeconds") =>
           ("validateDelaySeconds" \in passed <=>
              (delay = None \/ (delay[1] >= 0 /\ delay[1] <= 900)))
      /\ \A a \in AttributeInputs :
           (/\ Acted(a.step) /\ a.doc # None /\ a.doc[1].k = "obj"
            /\ \A j \in 1..Len(a.doc[1].m) : a.doc[1].m[j][2] = ValidEntry) =>
             (a.step \in passed <=> Len(a.doc[1].m) <= 10)

\* A submitted request at the limits: 262144 bytes of two-byte characters.
C10_Witness ==
  /\ Len(sent) = 1
  /\ sent[1].MessageBody.w2 > 0
  /\ ByteLength(sent[1].MessageBody) = MaxSizeBytes
  /\ StringLength(sent[1].MessageBody) < MaxSizeBytes

\* The attribute rules of the specification: a JSON object of at most 10
\* entries, each tagged String, Number or Binary and carrying the payload of
\* its tag, a Binary payload being base64 text.
SpecAttributesInvalid(o) ==
  /\ o # None /\ o[1].k # "empty"
  /\ \/ o[1].k # "obj"
     \/ Len(o[1].m) > 10
     \/ HasInvalidBase64(o[1])
     \/ \E i \in 1..Len(o[1].m) :
          LET e == o[1].m[i][2]
          IN  \/ \A tag \in {StrString, StrNumber, StrBinary} : ~IsTagged(e, tag)
              \/ (IsTagged(e, StrString) \/ IsTagged(e, StrNumber))
                 /\ Member(e, StrStringValue) = <<>>
              \/ IsTagged(e, StrBinary) /\ Member(e, StrBinaryValue) = <<>>

\* Some validation rule of the specification is violated by the inputs of the run.
SpecRuleViolated ==
  LET body == inputs.messageBody
      bytes == body.w1 + 2 * body.w2 + 3 * body.w3 + 4 * body.w4
      text == inputs.delaySeconds
      digits == IF text # <<>> /\ text[1] \in {"-", "+"}
                THEN SubSeq(text, 2, Len(text)) ELSE text
      doc(d) == IF d.k = "empty" THEN <<>> ELSE <<d>>
  IN  \/ inputs.queueUrl = <<>> \/ bytes = 0
      \/ ~SpecUrlShape(inputs.queueUrl)
      \/ bytes > 262144
      \/ text # <<>> /\ ~IsIntegerText(text)
      \/ IsIntegerText(text) /\ text[1] = "-" /\ DecimalValue(digits) > 0
      \/ IsIntegerText(text) /\ text[1] # "-" /\ DecimalValue(digits) > 900
      \/ EndsWith(inputs.queueUrl, StrFifo) /\ inputs.messageGroupId = <<>>
      \/ SpecAttributesInvalid(doc(inputs.messageAttributes))
      \/ SpecAttributesInvalid(doc(inputs.systemAttributes))

OutputsOf(r) ==
  {<<"message-id", r.messageId>>, <<"sequence-number", r.sequenceNumber>>,
   <<"md5-of-body", r.md5OfBody>>, <<"md5-of-attributes", r.md5OfAttributes>>}

\* C2: the run ends in failure exactly when a validation rule is violated,
\* attribute parsing fails, the delay text is rejected or the client reports
\* an error, and then emits no output; otherwise it succeeds and emits an
\* output only for a value that is present in the result.
C2_FailureIffRuleViolated ==
  (caller = "run" /\ pc = "done") =>
    /\ failed # <<>> <=>
         \/ SpecRuleViolated
         \/ ErrorAt("parseMessageAttributes") \/ ErrorAt("parseSystemAttributes")
         \/ ErrorAt("parseDelay")
         \/ ErrorAt("clientSend")
    /\ failed # <<>> => outputs = {}
    /\ failed = <<>> =>
         \A o \in outputs : \E f \in OutputsOf(result) : f[1] = o[1] /\ f[2] = <<o[2]>>

\* What holds of run() whatever the rules are: it fails exactly when some
\* statement threw, once, without output; otherwise the outputs are the
\* non-empty values of the result.
RunFailsIffErrorThrown ==
  (caller = "run" /\ pc = "done") =>
    /\ Len(failed) <= 1
    /\ failed # <<>> <=> errors # <<>>
    /\ failed # <<>> => outputs = {}
    /\ failed = <<>> =>
         outputs = {<<f[1], f[2][1]>> : f \in {g \in OutputsOf(result) :
                                                g[2] # <<>> /\ g[2] # <<"">>}}

\* The checks of sendMessage in the order of the specification.
CheckOrder ==
  <<"validateQueueUrl", "validateMessageBody", "validateDelaySeconds",
    "validateFifoQueue", "parseMessageAttributes", "parseSystemAttributes">>

\* Whether the config violates the k-th rule of the specification.
SpecRuleViolatedAt(k) ==
  LET body == config.messageBody
      bytes == body.w1 + 2 * body.w2 + 3 * body.w3 + 4 * body.w4
      delay == config.delaySeconds
      group == config.messageGroupId
  IN  CASE k = 1 -> ~SpecUrlShape(config.queueUrl)
        [] k = 2 -> bytes > 262144
        [] k = 3 -> delay # <<>> /\ (delay[1] < 0 \/ delay[1] > 900)
        [] k = 4 -> /\ Len(config.queueUrl) >= 5
                    /\ \A i \in 1..5 :
                         config.queueUrl[Len(config.queueUrl) - 5 + i] = StrFifo[i]
                    /\ (group = <<>> \/ group[1] = <<>>)
        [] k = 5 -> SpecAttributesInvalid(config.messageAttributes)
        [] OTHER -> SpecAttributesInvalid(config.systemAttributes)

\* sendMessage has been entered with the config.
InSendMessage == caller = "direct" \/ pc \notin {"getInputs", "parseDelay"}

\* C11: validation is fail-fast in the order URL, body, delay, FIFO, message
\* attributes, system attributes: when the config violates rules, the error
\* reported is that of the earliest violated one, no later rule is evaluated
\* (no warning, no attribute parsing) and nothing is built or submitted.
C11_EarliestViolatedRuleReported ==
  (InSendMessage /\ ~ErrorAt("getInputs") /\ ~ErrorAt("parseDelay")) =>
    \A k \in 1..6 :
      (/\ SpecRuleViolatedAt(k)
       /\ \A j \in 1..(k - 1) : ~SpecRuleViolatedAt(j)
       /\ \E j \in (k + 1)..6 : SpecRuleViolatedAt(j)) =>
        /\ \A j \in 1..6 : ErrorAt(CheckOrder[j]) => j = k
        /\ \A j \in (k + 1)..6 : ~Acted(CheckOrder[j])
        /\ k < 4 => warnings = 0
        /\ sent = <<>>
        /\ ~result.success

\* What holds of sendMessage for its own checks: a check that throws is the
\* only one that throws, every check before it has passed, none after it is
\* run, and nothing is submitted or returned as a success.
FailFastInCheckOrder ==
  \A k \in 1..6 :
    /\ Acted(CheckOrder[k]) => \A j \in 1..(k - 1) : CheckOrder[j] \in passed
    /\ ErrorAt(CheckOrder[k]) =>
         /\ \A j \in (k + 1)..6 : ~Acted(CheckOrder[j])
         /\ k < 4 => warnings = 0
         /\ k <= 5 => input.MessageAttributes = None
         /\ input.MessageSystemAttributes = None
         /\ sent = <<>>
         /\ ~result.success

\* C12: every AttributeValue of a parsed map carries exactly one payload, of
\* the kind of its tag (text for String and Number, bytes for Binary), also
\* for an entry that supplies both StringValue and BinaryValue; an entry
\* without the payload of its tag is rejected.
C12_ExactlyOnePayload ==
  \A a \in AttributeInputs :
    /\ a.field # None =>
         \A i \in 1..Len(a.field[1]) :
           LET v == a.field[1][i][2]
           IN  IF v.DataType = StrBinary
               THEN v.BinaryValue # None /\ v.StringValue = None
               ELSE v.StringValue # None /\ v.BinaryValue = None
    /\ (Acted(a.step) /\ a.doc # None /\ a.doc[1].k = "obj") =>
         ((\E i \in 1..Len(a.doc[1].m) :
             LET e == a.doc[1].m[i][2]
             IN  \/ (IsTagged(e, StrString) \/ IsTagged(e, StrNumber))
                    /\ Member(e, StrStringValue) = <<>>
                 \/ IsTagged(e, StrBinary) /\ Member(e, StrBinaryValue) = <<>>)
          => ErrorAt(a.step))

====
